---- MODULE Spec2Model ----
(***************************************************************************)
(* The VM registry daemon of src/main.rs: seven warp routes whose handlers *)
(* read and write VM records in a Redis database shared by all requests.   *)
(* Every request is served by its own task; the handlers of different      *)
(* requests interleave at their Redis commands.                            *)
(***************************************************************************)
EXTENDS Naturals, Sequences, FiniteSets

\* ------------------------------------------------------------------ bounds
\* The requests that can be in flight at the same time.
NumWorkers == 2

Workers == 1..NumWorkers

Names == {"vm1", "vm2"}

\* ------------------------------------------------------- the VM data type
\* Option<String>: None is <<>>, Some(s) is <<s>>.
None == <<>>

Some(s) == <<s>>

SystemAppType == {"System", "App"}

RunType == {"LongRun", "OneShot"}

VMType(sa, rt) == [system_app |-> sa, run_type |-> rt]

Addresses(ip, vsock) == [ip |-> ip, vsock |-> vsock]

VM(name, vm_type, addresses, xdg_run, mime_type) ==
    [name |-> name, vm_type |-> vm_type, addresses |-> addresses,
     xdg_run |-> xdg_run, mime_type |-> mime_type]

\* The request bodies the clients send: every name with three descriptions,
\* of which the first two share the ip and the last two share the vsock.
VMs ==
    UNION {{VM(n, VMType("System", "LongRun"), Addresses("10.0.0.1", "vsock1"),
               Some("xdg_value"), Some("mime_value")),
            VM(n, VMType("App", "OneShot"), Addresses("10.0.0.1", "vsock2"),
               None, None),
            VM(n, VMType("System", "OneShot"), Addresses("10.0.0.2", "vsock2"),
               Some("xdg_value"), None)} : n \in Names}

\* ------------------------------------------------------------ serde_json
\* A JSON text is modelled by its parse tree: a string, null, an object (the
\* sequence of its members in the order they are written) or an array.
JStr(s) == <<"str", s>>

JNull == <<"null">>

JObj(members) == <<"obj", members>>

JArr(items) == <<"arr", items>>

JOpt(o) == IF o = None THEN JNull ELSE JStr(o[1])

\* A serializer that writes an Option field as if it were always None.
to_string_null_mime(vm) ==
    JObj(<< <<"name", JStr(vm.name)>>,
            <<"vm_type", JObj(<< <<"system_app", JStr(vm.vm_type.system_app)>>,
                                 <<"run_type", JStr(vm.vm_type.run_type)>> >>)>>,
            <<"addresses", JObj(<< <<"ip", JStr(vm.addresses.ip)>>,
                                   <<"vsock", JStr(vm.addresses.vsock)>> >>)>>,
            <<"xdg_run", JOpt(vm.xdg_run)>>,
            <<"mime_type", JNull>> >>)

\* #[derive(Serialize)]: the fields in declaration order under their names.
to_string(vm) ==
    JObj(<< <<"name", JStr(vm.name)>>,
            <<"vm_type", JObj(<< <<"system_app", JStr(vm.vm_type.system_app)>>,
                                 <<"run_type", JStr(vm.vm_type.run_type)>> >>)>>,
            <<"addresses", JObj(<< <<"ip", JStr(vm.addresses.ip)>>,
                                   <<"vsock", JStr(vm.addresses.vsock)>> >>)>>,
            <<"xdg_run", JOpt(vm.xdg_run)>>,
            <<"mime_type", JOpt(vm.mime_type)>> >>)

IsObj(j) == j[1] = "obj"

IsStr(j) == j[1] = "str"

HasMember(j, k) == \E i \in 1..Len(j[2]) : j[2][i][1] = k

Member(j, k) == j[2][CHOOSE i \in 1..Len(j[2]) : j[2][i][1] = k][2]

StrMember(j, k) == HasMember(j, k) /\ IsStr(Member(j, k))

\* An Option field: absent or null is None, a string is Some, the rest fails.
OptOk(j, k) == HasMember(j, k) => (Member(j, k) = JNull \/ IsStr(Member(j, k)))

OptMember(j, k) ==
    IF HasMember(j, k) /\ IsStr(Member(j, k)) THEN Some(Member(j, k)[2]) ELSE None

Decodes(j) ==
    /\ IsObj(j)
    /\ StrMember(j, "name")
    /\ HasMember(j, "vm_type") /\ IsObj(Member(j, "vm_type"))
    /\ StrMember(Member(j, "vm_type"), "system_app")
    /\ Member(Member(j, "vm_type"), "system_app")[2] \in SystemAppType
    /\ StrMember(Member(j, "vm_type"), "run_type")
    /\ Member(Member(j, "vm_type"), "run_type")[2] \in RunType
    /\ HasMember(j, "addresses") /\ IsObj(Member(j, "addresses"))
    /\ StrMember(Member(j, "addresses"), "ip")
    /\ StrMember(Member(j, "addresses"), "vsock")
    /\ OptOk(j, "xdg_run")
    /\ OptOk(j, "mime_type")

\* #[derive(Deserialize)]: Ok(vm) is <<vm>>, Err is <<>>.
from_str(j) ==
    IF Decodes(j)
    THEN <<VM(Member(j, "name")[2],
              VMType(Member(Member(j, "vm_type"), "system_app")[2],
                     Member(Member(j, "vm_type"), "run_type")[2]),
              Addresses(Member(Member(j, "addresses"), "ip")[2],
                        Member(Member(j, "addresses"), "vsock")[2]),
              OptMember(j, "xdg_run"),
              OptMember(j, "mime_type"))>>
    ELSE <<>>

\* The record a database holds under key k.
Rec(db, k) == from_str(db[k])[1]

\* Two descriptions with the same ip or the same vsock.
Collide(v, w) ==
    v.addresses.ip = w.addresses.ip \/ v.addresses.vsock = w.addresses.vsock

\* ------------------------------------------------------------------ Redis
\* The database is a function from the keys present to their values.
redis_set(db, key, value) ==
    [k \in DOMAIN db \cup {key} |-> IF k = key THEN value ELSE db[k]]

\* FLUSHDB for DEL: every key goes.
redis_del_all(db, key) == <<>>

redis_del(db, key) == [k \in DOMAIN db \ {key} |-> db[k]]

\* KEYS *: the keys present, in an order Redis does not promise.
redis_keys(db) ==
    {s \in UNION {[1..n -> DOMAIN db] : n \in {Cardinality(DOMAIN db)}} :
        \A i, j \in 1..Len(s) : i /= j => s[i] /= s[j]}


\* --------------------------------------------------------------- replies
StatusOK == 200

\* A handler that panics sends no reply: the connection is dropped.
NoReply == 0

Reply(status, body) == [status |-> status, body |-> body]

Text(s) == <<"text", s>>

Json(j) == <<"json", j>>

Panicked == Reply(NoReply, <<"panic">>)

\* ------------------------------------------------------------ the handlers
\* What each handler writes to the database and what it answers. Some are
\* preceded by faulty variants, against which the properties are tested.

\* register_vm with SET NX, with the ip or the vsock as the key, with an
\* address check.
register_vm_db_nx(db, vm) ==
    IF vm.name \in DOMAIN db THEN db ELSE redis_set(db, vm.name, to_string(vm))

register_vm_db_by_ip(db, vm) == redis_set(db, vm.addresses.ip, to_string(vm))

register_vm_db_by_vsock(db, vm) == redis_set(db, vm.addresses.vsock, to_string(vm))

register_vm_db_checked(db, vm) ==
    IF \E k \in DOMAIN db : k /= vm.name /\ Collide(Rec(db, k), vm)
    THEN db
    ELSE redis_set(db, vm.name, to_string(vm))

\* register_vm stamping a version on the record, and keeping the record that
\* is there when it carries one.
register_vm_db_stamped(db, vm) ==
    IF vm.name \in DOMAIN db /\ HasMember(db[vm.name], "version")
    THEN db
    ELSE redis_set(db, vm.name,
                   JObj(Append(to_string(vm)[2], <<"version", JStr("1")>>)))

register_vm_db(db, vm) == redis_set(db, vm.name, to_string(vm))

register_vm_reply(vm) == Reply(StatusOK, Json(to_string(vm)))

\* run_vm writing a state into the record it finds.
run_vm_db_state(db, name) ==
    IF name \in DOMAIN db
    THEN redis_set(db, name, JObj(Append(db[name][2], <<"state", JStr("Running")>>)))
    ELSE db

run_vm_db(db, name) == db

\* run_vm refusing.
run_vm_reply_conflict(name) == Reply(409, Text("AlreadyRunning"))

run_vm_reply(name) == Reply(StatusOK, Text("VM started."))

\* connect_vm counting its calls in the record it finds.
connect_vm_db_count(db, name) ==
    IF name \in DOMAIN db
    THEN redis_set(db, name, JObj(Append(db[name][2], <<"version", JStr("next")>>)))
    ELSE db

connect_vm_db(db, name) == db

\* connect_vm refusing.
connect_vm_reply_busy(name) == Reply(409, Text("Busy"))

connect_vm_reply(name) == Reply(StatusOK, Text("Connected to VM."))

stop_vm_db(db, name) == db

\* stop_vm refusing.
stop_vm_reply_invalid(name) == Reply(409, Text("InvalidState"))

stop_vm_reply(name) == Reply(StatusOK, Text("VM stopped."))

\* get_vm_status consuming the record it reports on (GETDEL for GET).
get_vm_status_db_getdel(db, name) == redis_del(db, name)

\* get_vm_status issues no Redis command.
get_vm_status_db(db, name) == db

\* get_vm_status answering 404.
get_vm_status_reply_notfound(name) == Reply(404, Text("NotFound"))

\* format!("VM {} is running.", name)
get_vm_status_reply(name) == Reply(StatusOK, <<"text", "VM ", name, " is running.">>)

\* unregister_vm without its DEL.
unregister_vm_db_noop(db, name) == db

unregister_vm_db(db, name) == redis_del(db, name)

\* unregister_vm answering 404.
unregister_vm_reply_notfound(name) == Reply(404, Text("NotFound"))

unregister_vm_reply(name) == Reply(StatusOK, Text("VM unregistered."))

\* list_vms answering without the record it fetched last.
list_vms_reply_short(vs) ==
    Reply(StatusOK, Json(JArr([i \in 1..(IF vs = <<>> THEN 0 ELSE Len(vs) - 1)
                                  |-> to_string(vs[i])])))

list_vms_reply(vs) ==
    Reply(StatusOK, Json(JArr([i \in 1..Len(vs) |-> to_string(vs[i])])))

\* con.get(&name) then from_str: Ok(vm) is <<vm>>; a missing key (nil is no
\* String) and a value that is no VM both make the unwrap panic: <<>>.
list_vms_get(db, name) == IF name \in DOMAIN db THEN from_str(db[name]) ELSE <<>>

\* ------------------------------------------------------------------ state
VARIABLES
    store,        \* the Redis database: key -> JSON text
    pc,           \* per worker: "idle" or the handler (step) it is about to run
    req,          \* per worker: the request it is serving
    vm_names,     \* per worker, list_vms: the keys still to fetch
    vms,          \* per worker, list_vms: the records fetched so far
    last,         \* history: the call that completed last, see Respond; no
                  \* step changes the store without setting it
    unregistered, \* history: names unregistered and not registered since
    gone,         \* history, per worker serving list_vms: the names that were
                  \* unregistered when it was called and not registered since
    conc,         \* history (SpecConc): the workers in flight when `last` completed
    overlapped,   \* history (SpecConc): the call that completed before `last`
                  \* (its request and reply), if the two overlapped in time
    previous      \* history (SpecSeq): the call that completed before `last`

vars == <<store, pc, req, vm_names, vms, last, unregistered, gone,
          conc, overlapped, previous>>

NameOps == {"run_vm", "connect_vm", "stop_vm", "get_vm_status", "unregister_vm"}

NoRequest == [op |-> "none"]

NoCall == [req |-> NoRequest, reply |-> Reply(NoReply, <<"none">>),
           old |-> <<>>, gone |-> {}]

Requests ==
    {[op |-> "register_vm", vm |-> v] : v \in VMs}
        \cup {[op |-> o, name |-> n] : o \in NameOps, n \in Names}
        \cup {[op |-> "list_vms"]}

Init ==
    /\ store = <<>>
    /\ pc = [p \in Workers |-> "idle"]
    /\ req = [p \in Workers |-> NoRequest]
    /\ vm_names = [p \in Workers |-> <<>>]
    /\ vms = [p \in Workers |-> <<>>]
    /\ last = NoCall
    /\ unregistered = {}
    /\ gone = [p \in Workers |-> {}]
    /\ conc = {}
    /\ overlapped = NoCall
    /\ previous = NoCall

\* The workers whose call is in flight.
InFlight == {q \in Workers : pc[q] /= "idle"}

\* The value under a key, <<>> when the key is absent.
Stored(db, key) == IF key \in DOMAIN db THEN db[key] ELSE <<>>

\* The key a request names.
KeyOf(r) == IF r.op = "register_vm" THEN r.vm.name ELSE r.name

\* Worker p sends its reply and is free again. The history keeps the request,
\* the reply, the value that was under the request's key when the handler ran
\* (old) and, for list_vms, the names unregistered all through the call.
Respond(p, reply) ==
    /\ pc' = [pc EXCEPT ![p] = "idle"]
    /\ req' = [req EXCEPT ![p] = NoRequest]
    /\ last' = [req |-> req[p], reply |-> reply,
                old |-> IF req[p].op = "list_vms" THEN <<>>
                        ELSE Stored(store, KeyOf(req[p])),
                gone |-> gone[p]]

\* main: a request r arrives and its route hands it to the handler.
Route(p, r) ==
    /\ pc[p] = "idle"
    /\ req' = [req EXCEPT ![p] = r]
    /\ pc' = [pc EXCEPT ![p] = r.op]
    /\ gone' = [gone EXCEPT ![p] = IF r.op = "list_vms" THEN unregistered ELSE {}]
    /\ UNCHANGED <<store, vm_names, vms, last, unregistered>>

Dispatch(p) == \E r \in Requests : Route(p, r)

register_vm(p) ==
    /\ pc[p] = "register_vm"
    /\ store' = register_vm_db(store, req[p].vm)
    /\ Respond(p, register_vm_reply(req[p].vm))
    /\ unregistered' = unregistered \ {req[p].vm.name}
    /\ gone' = [q \in Workers |-> gone[q] \ {req[p].vm.name}]
    /\ UNCHANGED <<vm_names, vms>>

run_vm(p) ==
    /\ pc[p] = "run_vm"
    /\ store' = run_vm_db(store, req[p].name)
    /\ Respond(p, run_vm_reply(req[p].name))
    /\ UNCHANGED <<vm_names, vms, unregistered, gone>>

connect_vm(p) ==
    /\ pc[p] = "connect_vm"
    /\ store' = connect_vm_db(store, req[p].name)
    /\ Respond(p, connect_vm_reply(req[p].name))
    /\ UNCHANGED <<vm_names, vms, unregistered, gone>>

stop_vm(p) ==
    /\ pc[p] = "stop_vm"
    /\ store' = stop_vm_db(store, req[p].name)
    /\ Respond(p, stop_vm_reply(req[p].name))
    /\ UNCHANGED <<vm_names, vms, unregistered, gone>>

get_vm_status(p) ==
    /\ pc[p] = "get_vm_status"
    /\ store' = get_vm_status_db(store, req[p].name)
    /\ Respond(p, get_vm_status_reply(req[p].name))
    /\ UNCHANGED <<vm_names, vms, unregistered, gone>>

unregister_vm(p) ==
    /\ pc[p] = "unregister_vm"
    /\ store' = unregister_vm_db(store, req[p].name)
    /\ Respond(p, unregister_vm_reply(req[p].name))
    /\ unregistered' = unregistered \cup {req[p].name}
    /\ UNCHANGED <<vm_names, vms, gone>>

\* list_vms up to the loop: KEYS *.
list_vms(p) ==
    /\ pc[p] = "list_vms"
    /\ \E ks \in redis_keys(store) : vm_names' = [vm_names EXCEPT ![p] = ks]
    /\ vms' = [vms EXCEPT ![p] = <<>>]
    /\ pc' = [pc EXCEPT ![p] = "list_vms_loop"]
    /\ UNCHANGED <<store, req, last, unregistered, gone>>

\* One round of the loop (GET, decode, push), or the reply after the last.
list_vms_loop(p) ==
    /\ pc[p] = "list_vms_loop"
    /\ IF vm_names[p] = <<>>
       THEN /\ Respond(p, list_vms_reply(vms[p]))
            /\ vm_names' = vm_names
            /\ vms' = [vms EXCEPT ![p] = <<>>]
       ELSE LET got == list_vms_get(store, Head(vm_names[p])) IN
            IF got = <<>>
            THEN /\ Respond(p, Panicked)
                 /\ vm_names' = [vm_names EXCEPT ![p] = <<>>]
                 /\ vms' = [vms EXCEPT ![p] = <<>>]
            ELSE /\ vm_names' = [vm_names EXCEPT ![p] = Tail(vm_names[p])]
                 /\ vms' = [vms EXCEPT ![p] = Append(vms[p], got[1])]
                 /\ UNCHANGED <<pc, req, last>>
    /\ gone' = [gone EXCEPT ![p] = IF pc'[p] = "idle" THEN {} ELSE gone[p]]
    /\ UNCHANGED <<store, unregistered>>

\* The histories of SpecConc and SpecSeq are not kept.
NoHistory == UNCHANGED <<conc, overlapped, previous>>

\* The server: any free worker takes any request, any busy one moves on.
Next ==
    \E p \in Workers :
        \/ Dispatch(p) /\ NoHistory
        \/ register_vm(p) /\ NoHistory
        \/ run_vm(p) /\ NoHistory
        \/ connect_vm(p) /\ NoHistory
        \/ stop_vm(p) /\ NoHistory
        \/ get_vm_status(p) /\ NoHistory
        \/ unregister_vm(p) /\ NoHistory
        \/ list_vms(p) /\ NoHistory
        \/ list_vms_loop(p) /\ NoHistory

Spec == Init /\ [][Next]_vars

\* --------------------------------------------- concurrent Register and Run
\* The same server receiving only POST /register and POST /run, with the
\* overlap of the calls recorded.
ConcRequests == {r \in Requests : r.op \in {"register_vm", "run_vm"}}

DispatchConc(p) == \E r \in ConcRequests : Route(p, r)

\* When worker p completes: who is still in flight, and the call completed
\* just before if p was in flight then.
Overlap(p) ==
    /\ conc' = IF pc'[p] = "idle" THEN InFlight \ {p} ELSE conc
    /\ overlapped' = IF pc'[p] /= "idle" THEN overlapped
                     ELSE IF p \in conc THEN [last EXCEPT !.old = <<>>] ELSE NoCall
    /\ UNCHANGED previous

NextConc ==
    \E p \in Workers :
        \/ DispatchConc(p) /\ Overlap(p)
        \/ register_vm(p) /\ Overlap(p)
        \/ run_vm(p) /\ Overlap(p)

SpecConc == Init /\ [][NextConc]_vars

\* ------------------------------------------- concurrent mutating operations
\* The same server receiving only the requests of the five handlers that the
\* design calls mutating, with the overlap of the calls recorded.
MutatingOps == {"register_vm", "run_vm", "connect_vm", "stop_vm", "unregister_vm"}

MutRequests == {r \in Requests : r.op \in MutatingOps}

DispatchMut(p) == \E r \in MutRequests : Route(p, r)

NextMut ==
    \E p \in Workers :
        \/ DispatchMut(p) /\ Overlap(p)
        \/ register_vm(p) /\ Overlap(p)
        \/ run_vm(p) /\ Overlap(p)
        \/ connect_vm(p) /\ Overlap(p)
        \/ stop_vm(p) /\ Overlap(p)
        \/ unregister_vm(p) /\ Overlap(p)

SpecMut == Init /\ [][NextMut]_vars

\* ------------------------------------------------- one call after another
\* The same server with a client that sends its next request only after the
\* reply to the one before, with the call before the last recorded.
DispatchSeq(p) == InFlight = {} /\ Dispatch(p)

Previous(p) ==
    /\ previous' = IF pc'[p] = "idle" THEN last ELSE previous
    /\ UNCHANGED <<conc, overlapped>>

NextSeq ==
    \E p \in Workers :
        \/ DispatchSeq(p) /\ Previous(p)
        \/ register_vm(p) /\ Previous(p)
        \/ run_vm(p) /\ Previous(p)
        \/ connect_vm(p) /\ Previous(p)
        \/ stop_vm(p) /\ Previous(p)
        \/ get_vm_status(p) /\ Previous(p)
        \/ unregister_vm(p) /\ Previous(p)
        \/ list_vms(p) /\ Previous(p)
        \/ list_vms_loop(p) /\ Previous(p)

SpecSeq == Init /\ [][NextSeq]_vars

\* ------------------------------------------- a database with foreign values
\* The database is the Redis server at 127.0.0.1, which the daemon neither
\* creates nor clears: when the daemon starts it can hold, under any key,
\* values that are not the JSON text of a VM.
ForeignValues == {JStr("not a vm"), JObj(<< <<"name", JStr("vm1")>> >>)}

InitForeign ==
    /\ store \in UNION {[S -> ForeignValues] : S \in SUBSET Names}
    /\ pc = [p \in Workers |-> "idle"]
    /\ req = [p \in Workers |-> NoRequest]
    /\ vm_names = [p \in Workers |-> <<>>]
    /\ vms = [p \in Workers |-> <<>>]
    /\ last = NoCall
    /\ unregistered = {}
    /\ gone = [p \in Workers |-> {}]
    /\ conc = {}
    /\ overlapped = NoCall
    /\ previous = NoCall

\* The daemon on such a database, one call after another.
SpecForeign == InitForeign /\ [][NextSeq]_vars

\* ------------------------------------------------- vocabulary of the properties
TypeOK == DOMAIN store \subseteq Names

\* Worker p's call to handler h completes in this step.
Completes(p, h) == pc[p] = h /\ pc'[p] = "idle"

IsOK(call) == call.reply.status = StatusOK

\* ---------------------------------------------------------------------- C1
\* The last call was a Register whose name already had a record.
DuplicateRegister == last.req.op = "register_vm" /\ last.old /= <<>>

\* C1 as claimed: a Register whose name already has a record is rejected and
\* the record stored under that name is left as it was.
C1_DuplicateRejected ==
    DuplicateRegister =>
        (~IsOK(last) /\ Stored(store, last.req.vm.name) = last.old)

\* C1 as amended: a Register whose name already has a record returns success
\* (HTTP 200), answers with the new record, and replaces the record stored
\* under that name by the new one.
C1_DuplicateReplaces ==
    DuplicateRegister =>
        /\ IsOK(last)
        /\ from_str(last.reply.body[2]) = <<last.req.vm>>
        /\ last.req.vm.name \in DOMAIN store
        /\ from_str(store[last.req.vm.name]) = <<last.req.vm>>

\* A Register has just replaced a different record of the same name.
C1_Witness ==
    /\ last.req.op = "register_vm"
    /\ IsOK(last)
    /\ last.old /= <<>>
    /\ last.old /= to_string(last.req.vm)
    /\ last.req.vm.name \in DOMAIN store
    /\ from_str(store[last.req.vm.name]) = <<last.req.vm>>

\* ---------------------------------------------------------------------- C2
\* C2 as claimed: no two records stored under different names share an ip,
\* and no two share a vsock.
C2_AddressesUnique ==
    \A n, m \in DOMAIN store :
        n /= m => /\ Rec(store, n).addresses.ip /= Rec(store, m).addresses.ip
                  /\ Rec(store, n).addresses.vsock /= Rec(store, m).addresses.vsock

\* C2 as amended: no two records stored under different keys carry the same
\* name; their ip and vsock are not kept unique.
C2_NamesUnique ==
    \A n, m \in DOMAIN store :
        n /= m => Rec(store, n).name /= Rec(store, m).name

\* Two records under different names with the same ip and the same vsock.
C2_Witness ==
    \E n, m \in DOMAIN store :
        /\ n /= m
        /\ Rec(store, n).addresses = Rec(store, m).addresses

\* ---------------------------------------------------------------------- C3
\* The two calls completed last overlapped in time and both ran handler h.
ConcurrentPair(h) == last.req.op = h /\ overlapped.req.op = h

\* Two concurrent Register calls with different names and colliding addresses.
CollidingRegisters ==
    /\ ConcurrentPair("register_vm")
    /\ last.req.vm.name /= overlapped.req.vm.name
    /\ Collide(last.req.vm, overlapped.req.vm)

\* C3 as claimed: of two concurrent Register calls with different names and
\* colliding addresses at most one returns success.
C3_AtMostOneSucceeds == CollidingRegisters => ~(IsOK(last) /\ IsOK(overlapped))

\* C3 as amended: both of two such calls return success, and with no call but
\* Register and Run about both records are in the store when the second returns.
C3_BothSucceed ==
    CollidingRegisters =>
        /\ IsOK(last) /\ IsOK(overlapped)
        /\ {last.req.vm.name, overlapped.req.vm.name} \subseteq DOMAIN store
        /\ from_str(store[last.req.vm.name]) = <<last.req.vm>>
        /\ from_str(store[overlapped.req.vm.name]) = <<overlapped.req.vm>>

\* Two such calls have both returned success.
C3_Witness == CollidingRegisters /\ IsOK(last) /\ IsOK(overlapped)

\* ---------------------------------------------------------------------- C4
\* Two concurrent Run calls on the same name, which has a record.
ConcurrentRuns ==
    /\ ConcurrentPair("run_vm")
    /\ last.req.name = overlapped.req.name
    /\ last.req.name \in DOMAIN store

\* C4 as claimed: of the concurrent Run calls on a registered name exactly
\* one returns success.
C4_ExactlyOneRuns == ConcurrentRuns => (IsOK(last) /= IsOK(overlapped))

\* C4 as amended: every one of the concurrent Run calls on a registered name
\* returns success ("VM started."), and none of them changes the stored
\* record: no Start is reflected in the store.
C4_AllRunsSucceed ==
    [][\A p \in Workers :
        (/\ Completes(p, "run_vm")
         /\ p \in conc
         /\ last.req.op = "run_vm"
         /\ last.req.name = req[p].name
         /\ req[p].name \in DOMAIN store)
            => /\ IsOK(last) /\ last.reply.body = Text("VM started.")
               /\ IsOK(last') /\ last'.reply.body = Text("VM started.")
               /\ store[req[p].name] = last.old
               /\ store' = store]_vars

\* Two concurrent Run calls on a registered name have both returned success.
C4_Witness == ConcurrentRuns /\ IsOK(last) /\ IsOK(overlapped)

\* ---------------------------------------------------------------------- C5
\* The lifecycle state a stored JSON text carries, "none" if it carries none.
PersistedState(j) ==
    IF StrMember(j, "state") THEN Member(j, "state")[2] ELSE "none"

\* C5 as claimed: Run on a name whose record has just been registered returns
\* success and afterwards the stored record is in state Running.
C5_RunPersistsRunning ==
    [][\A p \in Workers :
        (/\ Completes(p, "run_vm")
         /\ last.req.op = "register_vm"
         /\ last.req.vm.name = req[p].name
         /\ req[p].name \in DOMAIN store)
            => /\ last'.reply.status = StatusOK
               /\ req[p].name \in DOMAIN store'
               /\ PersistedState(store'[req[p].name]) = "Running"]_vars

\* C5 as amended: Run on a name that has a record returns success (HTTP 200,
\* "VM started.") and leaves the stored record as Register wrote it: no state
\* is persisted.
C5_RunLeavesRecord ==
    [][\A p \in Workers :
        (Completes(p, "run_vm") /\ req[p].name \in DOMAIN store)
            => /\ last'.reply = Reply(StatusOK, Text("VM started."))
               /\ store' = store
               /\ PersistedState(store'[req[p].name]) = "none"]_vars

\* A Run on a registered name has returned success and the record is there.
C5_Witness ==
    /\ last.req.op = "run_vm"
    /\ IsOK(last)
    /\ last.old /= <<>>
    /\ last.req.name \in DOMAIN store
    /\ store[last.req.name] = last.old

\* ---------------------------------------------------------------------- C6
\* The call before the last was handler h, the last was handler g on the same
\* name, both answered with success, and the name had a record when g ran.
Then(h, g) ==
    /\ previous.req.op = h
    /\ last.req.op = g
    /\ KeyOf(previous.req) = KeyOf(last.req)
    /\ IsOK(previous)
    /\ last.old /= <<>>

\* The transitions the lifecycle table does not allow: Run when Running,
\* Connect when Registered or Stopped, Stop when Registered, Unregister when
\* Running or Connected.
IllegalTransition ==
    \/ Then("run_vm", "run_vm")
    \/ Then("register_vm", "connect_vm")
    \/ Then("stop_vm", "connect_vm")
    \/ Then("register_vm", "stop_vm")
    \/ Then("run_vm", "unregister_vm")
    \/ Then("connect_vm", "unregister_vm")

\* C6 as claimed: an illegal transition returns an error and the record stays
\* in the store as it was.
C6_IllegalRejected ==
    IllegalTransition => (~IsOK(last) /\ Stored(store, KeyOf(last.req)) = last.old)

\* C6 as amended: none of these transitions is refused. Each returns success;
\* Run, Connect and Stop leave the stored record as it was, and Unregister
\* removes the record also when a Run or a Connect was acknowledged before.
C6_IllegalAccepted ==
    IllegalTransition =>
        /\ IsOK(last)
        /\ last.req.op /= "unregister_vm" => Stored(store, KeyOf(last.req)) = last.old
        /\ last.req.op = "unregister_vm" => KeyOf(last.req) \notin DOMAIN store

\* An Unregister right after a Run has removed the record.
C6_Witness ==
    /\ Then("run_vm", "unregister_vm")
    /\ IsOK(last)
    /\ KeyOf(last.req) \notin DOMAIN store

\* ---------------------------------------------------------------------- C7
\* The last call was Run, Connect, Stop or Unregister on a name without record.
OnMissingName ==
    /\ last.req.op \in {"run_vm", "connect_vm", "stop_vm", "unregister_vm"}
    /\ last.old = <<>>

\* C7 as claimed: Run, Connect, Stop and Unregister on a name that has no
\* record answer 404.
C7_MissingIsNotFound == OnMissingName => last.reply.status = 404

\* C7 as amended: Run, Connect, Stop and Unregister on a name that has no
\* record return success (HTTP 200) and leave the store unchanged.
C7_MissingSucceeds ==
    [][\A p \in Workers :
        (/\ pc[p] \in {"run_vm", "connect_vm", "stop_vm", "unregister_vm"}
         /\ pc'[p] = "idle"
         /\ req[p].name \notin DOMAIN store)
            => (last'.reply.status = StatusOK /\ store' = store)]_vars

\* An Unregister of a name without record has returned success.
C7_Witness ==
    /\ last.req.op = "unregister_vm"
    /\ last.old = <<>>
    /\ IsOK(last)
    /\ last.req.name \notin DOMAIN store

\* ---------------------------------------------------------------------- C8
\* A successful Unregister of a name and then, next, a Status of it.
UnregisterThenStatus ==
    /\ previous.req.op = "unregister_vm"
    /\ IsOK(previous)
    /\ last.req.op = "get_vm_status"
    /\ last.req.name = previous.req.name

\* C8 as claimed: the Status that follows a successful Unregister answers
\* NotFound.
C8_StatusNotFound == UnregisterThenStatus => last.reply.status = 404

\* C8 as amended: the Status that follows a successful Unregister returns
\* success (HTTP 200) with the text "VM <name> is running.", although the
\* store has no record of the name.
C8_StatusStillRunning ==
    UnregisterThenStatus =>
        /\ last.reply = Reply(StatusOK, <<"text", "VM ", last.req.name, " is running.">>)
        /\ last.req.name \notin DOMAIN store

\* A Status right after the Unregister of a name that had a record.
C8_Witness == UnregisterThenStatus /\ previous.old /= <<>> /\ IsOK(last)

\* ---------------------------------------------------------------------- C9
\* Register of a record whose name and addresses were free and then, next, a
\* Status of its name.
RegisterThenStatus ==
    /\ previous.req.op = "register_vm"
    /\ previous.old = <<>>
    /\ last.req.op = "get_vm_status"
    /\ last.req.name = previous.req.vm.name
    /\ \A k \in DOMAIN store \ {last.req.name} :
          ~Collide(Rec(store, k), previous.req.vm)

\* C9 as claimed: the Register succeeds and the Status returns a record equal
\* to the registered one in name, vm_type, addresses, xdg_run and mime_type.
C9_StatusReturnsRecord ==
    RegisterThenStatus =>
        /\ IsOK(previous) /\ IsOK(last)
        /\ last.reply.body[1] = "json"
        /\ from_str(last.reply.body[2]) = <<previous.req.vm>>

\* C9 as amended: the Register succeeds (HTTP 200), answers with the record,
\* and the store then holds under the name a text that decodes to a record
\* equal to the registered one in all five fields, with no version and no
\* state; the Status returns HTTP 200 with the text "VM <name> is running."
\* and not the record.
C9_RegisterStoresRecord ==
    RegisterThenStatus =>
        /\ IsOK(previous)
        /\ from_str(previous.reply.body[2]) = <<previous.req.vm>>
        /\ last.req.name \in DOMAIN store
        /\ from_str(store[last.req.name]) = <<previous.req.vm>>
        /\ ~HasMember(store[last.req.name], "version")
        /\ ~HasMember(store[last.req.name], "state")
        /\ last.reply = Reply(StatusOK, <<"text", "VM ", last.req.name, " is running.">>)

\* Such a Register and Status, of a record with both optional fields set,
\* next to another record in the store.
C9_Witness ==
    /\ RegisterThenStatus
    /\ IsOK(previous) /\ IsOK(last)
    /\ previous.req.vm.mime_type /= None
    /\ Cardinality(DOMAIN store) = 2

\* --------------------------------------------------------------------- C10
\* The names of the records in the body of a List reply.
Listed(reply) ==
    {from_str(reply.body[2][2][i])[1].name : i \in 1..Len(reply.body[2][2])}

\* C10: a List called after the Unregister of a name, with no Register of the
\* name since, returns no record of that name; and every Register, Run,
\* Connect, Stop and Unregister returns success, so that the sequence
\* Register, Run, Connect, Stop, Unregister on one name succeeds at every step.
C10_ListOmitsUnregistered ==
    /\ (last.req.op = "list_vms" /\ IsOK(last))
          => Listed(last.reply) \cap last.gone = {}
    /\ last.req.op \in {"register_vm", "run_vm", "connect_vm", "stop_vm",
                        "unregister_vm"}
          => IsOK(last)

\* A List has returned the other record while a name was unregistered.
C10_Witness ==
    /\ last.req.op = "list_vms"
    /\ IsOK(last)
    /\ last.gone /= {}
    /\ Listed(last.reply) /= {}
    /\ Listed(last.reply) \cap last.gone = {}

\* --------------------------------------------------------------------- C11
\* Two Connect calls in succession on one name that has a record: the first
\* was acknowledged, so the second finds the VM connected.
ConnectTwice ==
    /\ previous.req.op = "connect_vm"
    /\ previous.old /= <<>>
    /\ last.req.op = "connect_vm"
    /\ last.req.name = previous.req.name
    /\ last.old /= <<>>

\* C11: two Connect calls in succession on a connected VM both return
\* success, and the second leaves the stored record as it found it, which is
\* as the first found it.
C11_ConnectIdempotent ==
    ConnectTwice =>
        /\ IsOK(previous) /\ IsOK(last)
        /\ last.old = previous.old
        /\ Stored(store, last.req.name) = last.old

\* Two Connect calls in succession have both returned success and the record
\* is in the store.
C11_Witness ==
    /\ ConnectTwice
    /\ IsOK(previous) /\ IsOK(last)
    /\ last.req.name \in DOMAIN store

\* --------------------------------------------------------------------- C12
\* The JSON texts in the body of a List reply.
Items(reply) == reply.body[2][2]

\* C12: with one call at a time, a List returns success with a JSON array
\* that holds, for every key in the store, the record stored under it, once,
\* and nothing else; on an empty store the array is empty.
C12_ListExact ==
    last.req.op = "list_vms" =>
        /\ IsOK(last)
        /\ last.reply.body[1] = "json"
        /\ last.reply.body[2][1] = "arr"
        /\ Len(Items(last.reply)) = Cardinality(DOMAIN store)
        /\ \A k \in DOMAIN store :
              \E i \in 1..Len(Items(last.reply)) :
                  from_str(Items(last.reply)[i]) = from_str(store[k])
        /\ store = <<>> => last.reply = Reply(StatusOK, Json(JArr(<<>>)))

\* A List has returned the two records of a store with two keys.
C12_Witness ==
    /\ last.req.op = "list_vms"
    /\ IsOK(last)
    /\ Cardinality(DOMAIN store) = 2
    /\ Len(Items(last.reply)) = 2
    /\ Listed(last.reply) = DOMAIN store

\* --------------------------------------------------------------------- C13
\* The keys of a database whose values decode as VM records.
Decodable(db) == {k \in DOMAIN db : Decodes(db[k])}

\* C13 as claimed: a List on a store that holds values which do not decode
\* as VM records returns success with exactly the records that decode.
C13_ListSkipsUndecodable ==
    last.req.op = "list_vms" =>
        /\ IsOK(last)
        /\ Len(Items(last.reply)) = Cardinality(Decodable(store))
        /\ \A k \in Decodable(store) :
              \E i \in 1..Len(Items(last.reply)) :
                  from_str(Items(last.reply)[i]) = from_str(store[k])

\* --------------------------------------------------------------------- C14
\* Worker p takes a step of get_vm_status or of list_vms.
ReadStep(p) ==
    /\ pc[p] \in {"get_vm_status", "list_vms", "list_vms_loop"}
    /\ (pc'[p] /= pc[p] \/ vm_names'[p] /= vm_names[p])

\* C14: no step of a Status or of a List changes the store, whatever the
\* store holds, whatever the name, and whatever else is in flight.
C14_ReadsNeverMutate ==
    [][(\E p \in Workers : ReadStep(p)) => store' = store]_vars

\* A Status of a name with a record has returned and the record is as it was.
C14_Witness ==
    /\ last.req.op = "get_vm_status"
    /\ IsOK(last)
    /\ last.old /= <<>>
    /\ Stored(store, last.req.name) = last.old
    /\ Cardinality(DOMAIN store) = 2

\* --------------------------------------------------------------------- C15
\* The version a stored JSON text carries, 0 if it carries none.
Version(j) ==
    IF HasMember(j, "version") /\ Member(j, "version")[1] = "num"
    THEN Member(j, "version")[2]
    ELSE 0

\* Two concurrent Register calls of the same name.
ConcurrentRegisters ==
    /\ ConcurrentPair("register_vm")
    /\ last.req.vm.name = overlapped.req.vm.name

\* C15 as claimed: every step that changes the record stored under a name
\* raises the version of that record. (A request carries no version, so a
\* write cannot be told stale by it.)
C15_VersionIncreases ==
    [][\A n \in DOMAIN store \cap DOMAIN store' :
          store'[n] /= store[n] => Version(store'[n]) > Version(store[n])]_vars

\* C15 as amended: no stored record carries a version, and no write is
\* rejected as stale: two concurrent Register calls of a name both return
\* success and the store holds the record of the one that wrote last.
C15_LastWriteWins ==
    /\ \A n \in DOMAIN store : ~HasMember(store[n], "version")
    /\ ConcurrentRegisters =>
          /\ IsOK(last) /\ IsOK(overlapped)
          /\ last.req.vm.name \in DOMAIN store
          /\ from_str(store[last.req.vm.name]) = <<last.req.vm>>

\* Two concurrent Register calls of a name with different descriptions have
\* both returned success, and the store holds the one written last.
C15_Witness ==
    /\ ConcurrentRegisters
    /\ last.req.vm /= overlapped.req.vm
    /\ IsOK(last) /\ IsOK(overlapped)
    /\ store[last.req.vm.name] = to_string(last.req.vm)

\* --------------------------------------------------------------------- C16
\* Worker p is serving a mutating operation: its handler has been entered
\* and has not yet issued its Redis command and reply.
Mutating(p) == pc[p] \in MutatingOps

\* The two calls completed last are mutating operations on the same name
\* that overlapped in time.
ConcurrentMutations ==
    /\ last.req.op \in MutatingOps
    /\ overlapped.req.op \in MutatingOps
    /\ KeyOf(last.req) = KeyOf(overlapped.req)

C18_ListCompletes == last.req.op = "list_vms" => IsOK(last)

\* --------------------------------------------------------------------- C19
\* C19: the step in which a Register or an Unregister completes leaves under
\* every key but the one of its own name the value that was there, and adds
\* no other key, whatever else is in flight.
C19_OtherNamesUnchanged ==
    [][\A p \in Workers :
        (Completes(p, "register_vm") \/ Completes(p, "unregister_vm"))
            => \A k \in (DOMAIN store \cup DOMAIN store') \ {KeyOf(req[p])} :
                  Stored(store', k) = Stored(store, k)]_vars

\* An Unregister has removed the record of its name and the record of the
\* other name is in the store.
C19_Witness ==
    /\ last.req.op = "unregister_vm"
    /\ IsOK(last)
    /\ last.old /= <<>>
    /\ last.req.name \notin DOMAIN store
    /\ DOMAIN store = Names \ {last.req.name}

\* --------------------------------------------------------------------- C20
\* C20: every value in the store decodes as a VM record whose name is the
\* key it is stored under, so a name has at most one record.
C20_KeyIsName ==
    \A k \in DOMAIN store :
        /\ Decodes(store[k])
        /\ Rec(store, k).name = k

\* The store holds a record under each name, one of them written over another.
C20_Witness ==
    /\ DOMAIN store = Names
    /\ last.req.op = "register_vm"
    /\ last.old /= <<>>
    /\ last.old /= store[last.req.vm.name]
    /\ \A k \in DOMAIN store : Rec(store, k).name = k

====
